---- MODULE Spec2Model ----
(***************************************************************************)
(* TodoServer (src/main.py): a FastAPI application over one SQLite file.   *)
(*                                                                         *)
(* The store holds three tables (todo, subtask, logentry).  Every request  *)
(* gets a Session of its own (get_session); a Session sends its writes to  *)
(* the file when it flushes and makes them visible when it commits.        *)
(*                                                                         *)
(* Facts about the libraries the handlers rest on, as used here:           *)
(*  - an INTEGER PRIMARY KEY column without AUTOINCREMENT (what the        *)
(*    Field(default=None, primary_key=True) columns become) is assigned    *)
(*    max(id)+1 of the rows present in the table, 1 for an empty table;    *)
(*  - SQLite does not enforce FOREIGN KEY clauses unless the connection    *)
(*    turns them on, and create_engine here does not;                      *)
(*  - a flush sends the INSERTs and UPDATEs of a mapper before its         *)
(*    DELETEs; an UPDATE that matches no row raises, a DELETE that matches *)
(*    no row only warns;                                                   *)
(*  - the sqlite3 driver opens the write transaction at the first          *)
(*    INSERT/UPDATE/DELETE and holds the file's write lock until the       *)
(*    commit; SELECTs outside it read the committed file;                  *)
(*  - a handler is an `async def` without await, so inside one server      *)
(*    process handlers run one after the other; requests interleave only   *)
(*    between server processes (workers), each with its own                *)
(*    SERVER_SESSION_ID.  Spec has one worker, SpecConc has two.           *)
(***************************************************************************)
EXTENDS Integers, Sequences, FiniteSets, TLC

\* ------------------------------------------------------------------ bounds
MaxTodoId == 2      \* no Todo id above this is assigned
MaxSubId == 2       \* no SubTask id above this is assigned
MaxRestarts == 1    \* restarts of one worker

Workers == {1, 2}
SeqWorkers == {1}

\* ------------------------------------------------------------ data model
None == "None"

\* TodoBase: the scalar fields and their defaults
ScalarFields == {"task", "completed", "priority", "dueDate", "remindMe"}

TodoBaseDefault ==
    [completed |-> FALSE, priority |-> "Medium", dueDate |-> None, remindMe |-> FALSE]

\* SubTaskCreate: task and completed only, no id
SubTaskCreate1 == [task |-> "s1", completed |-> FALSE]
SubTaskCreate2 == [task |-> "s2", completed |-> TRUE]

\* request bodies (TodoCreate, TodoUpdate): a field that is not in the
\* record was not sent
TodoInputs ==
    { [task |-> "t1"],
      [task |-> "t1", subTasks |-> << >>],
      [task |-> "t1", subTasks |-> <<SubTaskCreate1>>],
      [task |-> "t2", completed |-> TRUE, priority |-> "High", dueDate |-> "d1",
       remindMe |-> TRUE, subTasks |-> <<SubTaskCreate1, SubTaskCreate2>>] }

\* attribute access on a parsed body: the field sent, or the model's default
Attr(inp, f) == IF f \in DOMAIN inp THEN inp[f]
                ELSE IF f = "subTasks" THEN << >> ELSE TodoBaseDefault[f]


\* --------------------------------------------------------------- helpers
Max(S) == CHOOSE x \in S : \A y \in S : y <= x

Restrict(f, S) == [x \in S |-> f[x]]

RECURSIVE SortedSeq(_)
SortedSeq(S) == IF S = {} THEN << >>
                ELSE LET m == CHOOSE x \in S : \A y \in S : x <= y
                     IN <<m>> \o SortedSeq(S \ {m})

\* ------------------------------------------------------------------ state
VARIABLES
    todos,        \* table todo: id -> row
    subtasks,     \* table subtask: id -> row with todo_id
    logs,         \* table logentry: id -> row
    sid,          \* SERVER_SESSION_ID of each worker process
    issued,       \* the tokens login has returned
    lock,         \* the worker holding the file's write lock, 0 when free
    pc,           \* where each worker's handler stands
    req,          \* the handler's request and Session: what it has loaded
    last,         \* the last step taken and the response it sent, if any
    everTodoIds,  \* history: every id a Todo was ever given
    everSubIds    \* history: every id a SubTask was ever given

vars == <<todos, subtasks, logs, sid, issued, lock, pc, req, last,
          everTodoIds, everSubIds>>

\* ------------------------------------------------------------ primary keys
\* id: Optional[int] = Field(default=None, primary_key=True): the store
\* assigns the largest id present plus one
NextIdStale(ids) == IF ids = {} THEN 1 ELSE Max(ids)

NextId(ids) == IF ids = {} THEN 1 ELSE Max(ids) + 1

\* session.add(SubTask(task, completed, todo_id)) for each entry, in order
RECURSIVE InsertSubTasks(_, _, _)
InsertSubTasks(tbl, tid, l) ==
    IF l = << >> THEN tbl
    ELSE LET id == NextId(DOMAIN tbl)
             row == [todo_id |-> tid, task |-> Head(l).task,
                     completed |-> Head(l).completed]
         IN InsertSubTasks([x \in DOMAIN tbl \cup {id} |->
                               IF x = id THEN row ELSE tbl[x]], tid, Tail(l))

\* the SubTask rows whose todo_id is tid
SubIdsOf(tbl, tid) == {s \in DOMAIN tbl : tbl[s].todo_id = tid}

\* SubTaskRead of the rows of a Todo, in storage order
SubTaskReads(tbl, tid) ==
    LET ids == SortedSeq(SubIdsOf(tbl, tid))
    IN [i \in 1..Len(ids) |-> [id |-> ids[i], task |-> tbl[ids[i]].task,
                               completed |-> tbl[ids[i]].completed]]

\* TodoRead: the row, its id and its subtasks
TodoRead(tds, tbl, tid) ==
    [id |-> tid, task |-> tds[tid].task, completed |-> tds[tid].completed,
     priority |-> tds[tid].priority, dueDate |-> tds[tid].dueDate,
     remindMe |-> tds[tid].remindMe, subTasks |-> SubTaskReads(tbl, tid)]

NoTodo == [task |-> "", completed |-> FALSE, priority |-> "", dueDate |-> None,
           remindMe |-> FALSE]

\* Todo(task=..., completed=..., priority=..., dueDate=..., remindMe=...)
TodoRow(inp) == [f \in ScalarFields |-> Attr(inp, f)]

\* ------------------------------------------------------------------- auth
SECRET_KEY == "SECRET_KEY"

Absent == [sub |-> "", sid |-> <<0, 0>>, key |-> "absent"]
\* a well-formed token naming the current session, signed with another key
Forged(cur) == [sub |-> "admin", sid |-> cur, key |-> "other"]

\* jwt.encode({"sub": ..., "sid": ...}, SECRET_KEY)
Encode(sub, s) == [sub |-> sub, sid |-> s, key |-> SECRET_KEY]

TryValidateAnySession(token, cur) ==
    IF token.key # SECRET_KEY
    THEN [raised |-> TRUE, detail |-> "DecodeError", user |-> ""]
    ELSE [raised |-> FALSE, detail |-> "", user |-> token.sub]

\* the body of get_current_user's try: what it returns or raises
TryValidate(token, cur) ==
    IF token.key # SECRET_KEY
    THEN [raised |-> TRUE, detail |-> "DecodeError", user |-> ""]
    ELSE IF token.sid # cur
    THEN [raised |-> TRUE, detail |-> "Session expired", user |-> ""]
    ELSE [raised |-> FALSE, detail |-> "", user |-> token.sub]

\* Depends(oauth2_scheme) then get_current_user: the bare except turns
\* everything the try raises into 401 "Invalid token"
get_current_user(token, cur) ==
    IF token.key = "absent"
    THEN [status |-> 401, detail |-> "Not authenticated", user |-> ""]
    ELSE LET r == TryValidate(token, cur)
         IN IF r.raised
            THEN [status |-> 401, detail |-> "Invalid token", user |-> ""]
            ELSE [status |-> 200, detail |-> "", user |-> r.user]

\* what a client can send to worker w as its bearer token
Presented(w) == issued \cup {Absent, Forged(sid[w])}

Usernames == {"admin", "bob"}
Passwords == {"12345", "wrong"}

BadCredentialsBoth(u, p) == u # "admin" /\ p # "12345"

\* login's test of the form
BadCredentials(u, p) == u # "admin" \/ p # "12345"

\* ------------------------------------------------------------------- logs
LogIds == {"aaaaaaaa", "bbbbbbbb"}

\* readings of datetime.now(): the server's clock, never the client's
Times == {"2026-01-01T10:00:00"}

\* POST /logs bodies: any dictionary
LogInputs ==
    { [message |-> "boom"],
      [id |-> "aaaaaaaa", message |-> "m1", stack |-> "st", url |-> "u1"] }

Get(data, k, default) == IF k \in DOMAIN data THEN data[k] ELSE default

\* data.get("id") or str(uuid.uuid4())[:8]
LogId(data, generated) ==
    IF "id" \in DOMAIN data /\ data.id # "" THEN data.id ELSE generated

LogRow(data, now) ==
    [message |-> Get(data, "message", "No message provided"),
     stack |-> Get(data, "stack", "No stack trace"),
     url |-> Get(data, "url", "Unknown URL"),
     timestamp |-> now]

LogUpsert(tbl, id, row) ==
    [ok |-> TRUE, tbl |-> [x \in DOMAIN tbl \cup {id} |-> IF x = id THEN row ELSE tbl[x]]]

\* session.add(new_log); session.commit(): the row is added unless its
\* primary key is taken
LogInsert(tbl, id, row) ==
    IF id \in DOMAIN tbl THEN [ok |-> FALSE, tbl |-> tbl]
    ELSE [ok |-> TRUE, tbl |-> [x \in DOMAIN tbl \cup {id} |->
                                   IF x = id THEN row ELSE tbl[x]]]

\* ------------------------------------------------------------ update, delete
update_dict_all(inp) == [f \in ScalarFields |-> Attr(inp, f)]

\* updated_data.dict(exclude_unset=True) without "subTasks": the scalar
\* fields the request sent
update_dict(inp) == Restrict(inp, DOMAIN inp \cap ScalarFields)

\* setattr(db_todo, key, value) for each item: the attributes whose value
\* differs from the loaded one are the ones the flush writes
Changed(db_todo, inp) ==
    LET d == update_dict(inp) IN {f \in DOMAIN d : d[f] # db_todo[f]}

\* UPDATE todo SET <changed columns> WHERE id = ...
UpdatedRow(row, changed, inp) ==
    [f \in ScalarFields |-> IF f \in changed THEN update_dict(inp)[f] ELSE row[f]]

ReplaceDeleteFirst(tbl, tid, existing, l) ==
    InsertSubTasks(Restrict(tbl, DOMAIN tbl \ existing), tid, l)

\* the flush of update_todo's commit: the new rows are inserted, then the
\* rows selected before are deleted
ReplaceSubTasks(tbl, tid, existing, l) ==
    LET ins == InsertSubTasks(tbl, tid, l)
    IN Restrict(ins, DOMAIN ins \ existing)

NoCascade(tbl, loaded) == tbl

\* the flush of delete_todo's commit: the subtasks loaded with the Todo are
\* deleted (cascade_delete), FOREIGN KEY is not enforced
CascadeDelete(tbl, loaded) == Restrict(tbl, DOMAIN tbl \ loaded)

\* ------------------------------------------------------------ requests
NoReq == [token |-> Absent, id |-> 0, input |-> [task |-> ""], db_todo |-> NoTodo,
          loaded |-> {}, existing |-> {}, changed |-> {}]

Step(w, act, status, detail, token, arg, out) ==
    [w |-> w, act |-> act, status |-> status, detail |-> detail, token |-> token,
     arg |-> arg, out |-> out]

\* no response has been sent by the step just taken
NoStep == Step(0, "", 0, "", Absent, 0, 0)

InitStore ==
    /\ todos = [x \in {} |-> NoTodo]
    /\ subtasks = [x \in {} |-> [todo_id |-> 0, task |-> "", completed |-> FALSE]]
    /\ logs = [x \in {} |-> LogRow([message |-> ""], "")]
    /\ sid = [w \in Workers |-> <<w, 0>>]
    /\ lock = 0
    /\ pc = [w \in Workers |-> "idle"]
    /\ req = [w \in Workers |-> NoReq]
    /\ last = NoStep
    /\ everTodoIds = {}
    /\ everSubIds = {}

\* the server has started and nobody has logged in
Init == InitStore /\ issued = {}

\* each worker has served one successful login
InitConc == InitStore /\ issued = {Encode("admin", sid[w]) : w \in Workers}

\* POST /token
login(w) ==
    /\ pc[w] = "idle"
    /\ \E u \in Usernames, p \in Passwords :
          LET arg == [username |-> u, password |-> p]
          IN IF BadCredentials(u, p)
             THEN /\ last' = Step(w, "login", 400, "Invalid credentials", Absent, arg, Absent)
                  /\ UNCHANGED issued
             ELSE /\ last' = Step(w, "login", 200, "", Absent, arg, Encode(u, sid[w]))
                  /\ issued' = issued \cup {Encode(u, sid[w])}
    /\ UNCHANGED <<todos, subtasks, logs, sid, lock, pc, req, everTodoIds, everSubIds>>

\* user: str = Depends(get_current_user): a protected route's handler runs
\* only when the dependency returns
authorize(w) ==
    /\ pc[w] = "idle"
    /\ \E token \in Presented(w) :
          LET a == get_current_user(token, sid[w])
          IN IF a.status # 200
             THEN /\ last' = Step(w, "get_current_user", a.status, a.detail, token, 0, 0)
                  /\ UNCHANGED <<pc, req>>
             ELSE /\ pc' = [pc EXCEPT ![w] = "authorized"]
                  /\ last' = NoStep
                  /\ req' = [req EXCEPT ![w] = [NoReq EXCEPT !.token = token]]
    /\ UNCHANGED <<todos, subtasks, logs, sid, issued, lock, everTodoIds, everSubIds>>

\* GET /todos
get_todos(w) ==
    /\ pc[w] = "authorized"
    /\ last' = Step(w, "get_todos", 200, "", req[w].token, 0,
                    [t \in DOMAIN todos |-> TodoRead(todos, subtasks, t)])
    /\ pc' = [pc EXCEPT ![w] = "idle"]
    /\ req' = [req EXCEPT ![w] = NoReq]
    /\ UNCHANGED <<todos, subtasks, logs, sid, issued, lock, everTodoIds, everSubIds>>

\* GET /logs
get_logs(w) ==
    /\ pc[w] = "authorized"
    /\ last' = Step(w, "get_logs", 200, "", req[w].token, 0, logs)
    /\ pc' = [pc EXCEPT ![w] = "idle"]
    /\ req' = [req EXCEPT ![w] = NoReq]
    /\ UNCHANGED <<todos, subtasks, logs, sid, issued, lock, everTodoIds, everSubIds>>

\* POST /todos, to the commit: the Todo row, then its SubTask rows, in one
\* write transaction
add_todo(w) ==
    /\ pc[w] = "authorized"
    /\ lock = 0
    /\ \E inp \in TodoInputs :
          LET tid == NextId(DOMAIN todos)
              subs == InsertSubTasks(subtasks, tid, Attr(inp, "subTasks"))
          IN /\ tid <= MaxTodoId
             /\ \A s \in DOMAIN subs : s <= MaxSubId
             /\ todos' = [x \in DOMAIN todos \cup {tid} |->
                             IF x = tid THEN TodoRow(inp) ELSE todos[x]]
             /\ subtasks' = subs
             /\ everTodoIds' = everTodoIds \cup {tid}
             /\ everSubIds' = everSubIds \cup (DOMAIN subs \ DOMAIN subtasks)
             /\ req' = [req EXCEPT ![w].id = tid, ![w].input = inp]
    /\ pc' = [pc EXCEPT ![w] = "add_committed"]
    /\ last' = NoStep
    /\ UNCHANGED <<logs, sid, issued, lock>>

\* session.refresh(db_todo); return db_todo
Refresh(w, act) ==
    /\ last' = IF req[w].id \in DOMAIN todos
               THEN Step(w, act, 200, "", req[w].token, req[w].input,
                         TodoRead(todos, subtasks, req[w].id))
               ELSE Step(w, act, 500, "Could not refresh instance", req[w].token,
                         req[w].input, 0)
    /\ pc' = [pc EXCEPT ![w] = "idle"]
    /\ req' = [req EXCEPT ![w] = NoReq]
    /\ UNCHANGED <<todos, subtasks, logs, sid, issued, lock, everTodoIds, everSubIds>>

add_todo_return(w) ==
    /\ pc[w] = "add_committed"
    /\ Refresh(w, "add_todo")

\* PUT /todos/{todo_id}: session.get(Todo, todo_id)
update_todo_get(w) ==
    /\ pc[w] = "authorized"
    /\ \E tid \in 1..MaxTodoId :
          IF tid \notin DOMAIN todos
          THEN /\ last' = Step(w, "update_todo", 404, "Todo not found", req[w].token, 0, tid)
               /\ pc' = [pc EXCEPT ![w] = "idle"]
               /\ req' = [req EXCEPT ![w] = NoReq]
          ELSE \E inp \in TodoInputs :
               /\ pc' = [pc EXCEPT ![w] = "update_got"]
               /\ req' = [req EXCEPT ![w].id = tid, ![w].input = inp,
                                     ![w].db_todo = todos[tid]]
               /\ last' = NoStep
    /\ UNCHANGED <<todos, subtasks, logs, sid, issued, lock, everTodoIds, everSubIds>>

\* the setattr loop, then select(SubTask).where(SubTask.todo_id == todo_id):
\* the query flushes the changed attributes first (autoflush), which opens
\* the write transaction
update_todo_select(w) ==
    /\ pc[w] = "update_got"
    /\ LET changed == Changed(req[w].db_todo, req[w].input)
           dirty == changed # {}
       IN /\ dirty => lock = 0
          /\ IF dirty /\ req[w].id \notin DOMAIN todos
             THEN /\ last' = Step(w, "update_todo", 500, "StaleDataError", req[w].token,
                                  req[w].input, req[w].id)
                  /\ pc' = [pc EXCEPT ![w] = "idle"]
                  /\ req' = [req EXCEPT ![w] = NoReq]
                  /\ UNCHANGED lock
             ELSE /\ lock' = IF dirty THEN w ELSE lock
                  /\ pc' = [pc EXCEPT ![w] = "update_selected"]
                  /\ req' = [req EXCEPT ![w].changed = changed,
                                        ![w].db_todo = NoTodo,
                                        ![w].existing = SubIdsOf(subtasks, req[w].id)]
                  /\ last' = NoStep
    /\ UNCHANGED <<todos, subtasks, logs, sid, issued, everTodoIds, everSubIds>>

\* session.delete(sub) for each selected row, session.add(new_sub) for each
\* entry, session.commit()
update_todo_commit(w) ==
    /\ pc[w] = "update_selected"
    /\ lock \in {0, w}
    /\ LET r == req[w]
           l == Attr(r.input, "subTasks")
           ins == InsertSubTasks(subtasks, r.id, l)
       IN /\ \A s \in DOMAIN ins : s <= MaxSubId
          /\ todos' = IF r.changed # {}
                      THEN [todos EXCEPT ![r.id] = UpdatedRow(todos[r.id], r.changed, r.input)]
                      ELSE todos
          /\ subtasks' = ReplaceSubTasks(subtasks, r.id, r.existing, l)
          /\ everSubIds' = everSubIds \cup (DOMAIN ins \ DOMAIN subtasks)
          /\ req' = [req EXCEPT ![w] = [NoReq EXCEPT !.token = r.token, !.id = r.id,
                                                   !.input = r.input]]
    /\ lock' = 0
    /\ pc' = [pc EXCEPT ![w] = "update_committed"]
    /\ last' = NoStep
    /\ UNCHANGED <<logs, sid, issued, everTodoIds>>

update_todo_return(w) ==
    /\ pc[w] = "update_committed"
    /\ Refresh(w, "update_todo")

\* DELETE /todos/{todo_id}: session.get(Todo, todo_id), which loads the
\* Todo's subtasks with it (lazy="selectin")
delete_todo_get(w) ==
    /\ pc[w] = "authorized"
    /\ \E tid \in 1..MaxTodoId :
          IF tid \notin DOMAIN todos
          THEN /\ last' = Step(w, "delete_todo", 404, "Todo not found", req[w].token, tid, 0)
               /\ pc' = [pc EXCEPT ![w] = "idle"]
               /\ req' = [req EXCEPT ![w] = NoReq]
          ELSE /\ pc' = [pc EXCEPT ![w] = "delete_got"]
               /\ req' = [req EXCEPT ![w].id = tid,
                                     ![w].loaded = SubIdsOf(subtasks, tid)]
               /\ last' = NoStep
    /\ UNCHANGED <<todos, subtasks, logs, sid, issued, lock, everTodoIds, everSubIds>>

\* session.delete(todo); session.commit()
delete_todo_commit(w) ==
    /\ pc[w] = "delete_got"
    /\ lock = 0
    /\ todos' = Restrict(todos, DOMAIN todos \ {req[w].id})
    /\ subtasks' = CascadeDelete(subtasks, req[w].loaded)
    /\ last' = Step(w, "delete_todo", 200, "Deleted", req[w].token, req[w].id, 0)
    /\ pc' = [pc EXCEPT ![w] = "idle"]
    /\ req' = [req EXCEPT ![w] = NoReq]
    /\ UNCHANGED <<logs, sid, issued, lock, everTodoIds, everSubIds>>

\* POST /logs: no token is asked for
create_log(w) ==
    /\ pc[w] = "idle"
    /\ lock = 0
    /\ \E data \in LogInputs, generated \in LogIds, now \in Times :
          LET r == LogInsert(logs, LogId(data, generated), LogRow(data, now))
          IN /\ logs' = r.tbl
             /\ last' = IF r.ok
                        THEN Step(w, "create_log", 200, "success", Absent, data,
                                  LogId(data, generated))
                        ELSE Step(w, "create_log", 500, "IntegrityError", Absent, data,
                                  LogId(data, generated))
    /\ UNCHANGED <<todos, subtasks, sid, issued, lock, pc, req, everTodoIds, everSubIds>>

\* the worker process is stopped and started again: SERVER_SESSION_ID is a
\* new uuid4, the requests in flight and their open transactions are gone
Restart(w) ==
    /\ sid[w][2] < MaxRestarts
    /\ sid' = [sid EXCEPT ![w] = <<w, sid[w][2] + 1>>]
    /\ pc' = [pc EXCEPT ![w] = "idle"]
    /\ req' = [req EXCEPT ![w] = NoReq]
    /\ lock' = IF lock = w THEN 0 ELSE lock
    /\ last' = NoStep
    /\ UNCHANGED <<todos, subtasks, logs, issued, everTodoIds, everSubIds>>

Handle(w) ==
    \/ login(w)
    \/ authorize(w)
    \/ get_todos(w)
    \/ get_logs(w)
    \/ add_todo(w)
    \/ add_todo_return(w)
    \/ update_todo_get(w)
    \/ update_todo_select(w)
    \/ update_todo_commit(w)
    \/ update_todo_return(w)
    \/ delete_todo_get(w)
    \/ delete_todo_commit(w)
    \/ create_log(w)
    \/ Restart(w)

\* one server process: requests are handled one at a time
Next == \E w \in SeqWorkers : Handle(w)

Spec == Init /\ [][Next]_vars

\* the Todo routes and what they need
HandleTodo(w) ==
    \/ authorize(w)
    \/ add_todo(w)
    \/ add_todo_return(w)
    \/ update_todo_get(w)
    \/ update_todo_select(w)
    \/ update_todo_commit(w)
    \/ update_todo_return(w)
    \/ delete_todo_get(w)
    \/ delete_todo_commit(w)

\* two server processes over the same database file
NextConc == \E w \in Workers : HandleTodo(w)

SpecConc == InitConc /\ [][NextConc]_vars

\* ------------------------------------------------------------ properties
\* the steps of worker w, told by where its handler stands before and after
AddCommitted(w) == pc[w] = "authorized" /\ pc'[w] = "add_committed"
UpdateCommitted(w) == pc[w] = "update_selected" /\ pc'[w] = "update_committed"
DeleteCommitted(w) == pc[w] = "delete_got" /\ pc'[w] = "idle" /\ last'.act = "delete_todo"

Contents(reads) == [i \in 1..Len(reads) |-> [task |-> reads[i].task,
                                             completed |-> reads[i].completed]]

DistinctIds(reads) == \A i, j \in 1..Len(reads) : i # j => reads[i].id # reads[j].id

\* C1, as stated: create returns a Todo with exactly N subtasks, and the
\* Todo id and the subtask ids it assigns were never assigned before, not
\* even to a Todo or SubTask deleted since.
C1_NeverAssignedBefore ==
    [][\A w \in Workers :
          AddCommitted(w) =>
             /\ req'[w].id \notin everTodoIds
             /\ (DOMAIN subtasks' \ DOMAIN subtasks) \cap everSubIds = {}]_vars

\* C1, amended: create returns a Todo with exactly N subtasks whose ids are
\* pairwise distinct; the Todo id is the id of no Todo stored when it is
\* assigned and each subtask id the id of no SubTask stored then (the id of
\* a deleted row can be assigned again).
C1_FreshAmongStored ==
    [][\A w \in Workers :
          /\ AddCommitted(w) =>
                LET n == Len(Attr(req'[w].input, "subTasks"))
                    new == DOMAIN subtasks' \ DOMAIN subtasks
                IN /\ req'[w].id \notin DOMAIN todos
                   /\ DOMAIN todos' = DOMAIN todos \cup {req'[w].id}
                   /\ DOMAIN subtasks \subseteq DOMAIN subtasks'
                   /\ Cardinality(new) = n
                   /\ SubIdsOf(subtasks', req'[w].id) = new
          /\ (pc[w] = "add_committed" /\ last'.act = "add_todo") =>
                /\ last'.status = 200
                /\ last'.out.id = req[w].id
                /\ Len(last'.out.subTasks) = Len(Attr(last'.arg, "subTasks"))
                /\ Contents(last'.out.subTasks) = Attr(last'.arg, "subTasks")
                /\ DistinctIds(last'.out.subTasks)]_vars

\* a create has returned two subtasks for Todo id 1 after Todo ids 1 and 2
\* had both been assigned and deleted
C1_Witness ==
    /\ last.act = "add_todo" /\ last.status = 200
    /\ Len(last.out.subTasks) = 2
    /\ last.out.id = 1
    /\ everTodoIds = {1, 2}

\* C2: update with a subtask list of M entries (none when the list is empty
\* or omitted) leaves the Todo with exactly M subtasks, one per entry with
\* its task and completed values, none of them with an id the Todo's
\* subtasks had before the update.
C2_UpdateReplacesSubTasks ==
    [][\A w \in Workers :
          /\ UpdateCommitted(w) =>
                LET tid == req[w].id
                    l == Attr(req[w].input, "subTasks")
                    before == SubIdsOf(subtasks, tid)
                    after == SubIdsOf(subtasks', tid)
                IN /\ Cardinality(after) = Len(l)
                   /\ after \cap before = {}
                   /\ Contents(SubTaskReads(subtasks', tid)) = l
          /\ (pc[w] = "update_committed" /\ last'.act = "update_todo") =>
                /\ last'.status = 200
                /\ Contents(last'.out.subTasks) = Attr(last'.arg, "subTasks")]_vars

\* the only Todo ever created had subtask 1 and an update has returned it
\* with the new subtask 2 in place of subtask 1
C2_Witness ==
    /\ last.act = "update_todo" /\ last.status = 200
    /\ Len(last.out.subTasks) = 1
    /\ DOMAIN subtasks = {2}
    /\ everSubIds = {1, 2}
    /\ everTodoIds = {1}

\* C3: update overwrites the scalar fields the input holds and no other;
\* a scalar field the input omits keeps its stored value, and the Todo
\* keeps its id.
C3_UpdateMergesScalars ==
    [][\A w \in Workers :
          /\ UpdateCommitted(w) =>
                LET tid == req[w].id
                    inp == req[w].input
                IN /\ DOMAIN todos' = DOMAIN todos
                   /\ \A f \in ScalarFields :
                         todos'[tid][f] = IF f \in DOMAIN inp THEN inp[f] ELSE todos[tid][f]
                   /\ \A t \in DOMAIN todos \ {tid} : todos'[t] = todos[t]
          /\ (pc[w] = "update_committed" /\ last'.act = "update_todo") =>
                /\ last'.out.id = req[w].id
                /\ \A f \in DOMAIN last'.arg \cap ScalarFields : last'.out[f] = last'.arg[f]]_vars

\* an update that sent the task alone has returned a Todo whose priority,
\* completed, dueDate and remindMe are still the values stored before
C3_Witness ==
    /\ last.act = "update_todo" /\ last.status = 200
    /\ DOMAIN last.arg = {"task"}
    /\ last.out.task = "t1"
    /\ last.out.priority = "High" /\ last.out.completed = TRUE
    /\ last.out.dueDate = "d1" /\ last.out.remindMe = TRUE

\* C4: delete of an existing Todo removes it and leaves no SubTask with its
\* id, and changes no other Todo nor its subtasks; delete of an id that is
\* not stored answers NotFound and changes nothing.
C4_DeleteCascades ==
    [][\A w \in Workers :
          /\ DeleteCommitted(w) =>
                LET tid == req[w].id
                IN /\ last'.status = 200
                   /\ tid \in DOMAIN todos
                   /\ DOMAIN todos' = DOMAIN todos \ {tid}
                   /\ \A t \in DOMAIN todos' : todos'[t] = todos[t]
                   /\ SubIdsOf(subtasks', tid) = {}
                   /\ DOMAIN subtasks' = DOMAIN subtasks \ SubIdsOf(subtasks, tid)
                   /\ \A s \in DOMAIN subtasks' : subtasks'[s] = subtasks[s]
          /\ (pc[w] = "authorized" /\ last'.act = "delete_todo" /\ last'.w = w) =>
                /\ last'.status = 404
                /\ last'.arg \notin DOMAIN todos
                /\ UNCHANGED <<todos, subtasks, logs>>
          /\ (pc[w] = "authorized" /\ pc'[w] = "delete_got") =>
                req'[w].id \in DOMAIN todos]_vars

\* Todo 1 and its subtask have been deleted, Todo 2 and its subtask remain
C4_Witness ==
    /\ last.act = "delete_todo" /\ last.status = 200 /\ last.arg = 1
    /\ DOMAIN todos = {2}
    /\ DOMAIN subtasks = {2} /\ subtasks[2].todo_id = 2
    /\ everSubIds = {1, 2}

\* C5, as stated: a token login issued that is refused because the worker
\* has restarted since is refused with "Session expired", not with the
\* "Invalid token" of a malformed or badly signed token.
C5_StaleTokenSessionExpired ==
    (last.act = "get_current_user" /\ last.status = 401 /\ last.token \in issued)
       => last.detail = "Session expired"

ProtectedActs == {"get_todos", "get_logs", "add_todo", "update_todo", "delete_todo"}

ValidToken(token, cur) ==
    token \in issued /\ token.key = SECRET_KEY /\ token.sid = cur

\* C6: a step that lists, creates, updates or deletes Todos or lists the
\* logs (answers such a request or changes the todo or subtask table) is
\* the step of a request whose token is signed with the key and names the
\* worker's current session; only login and log creation run without one.
C6_ProtectedNeedValidToken ==
    [][(\/ todos' # todos
        \/ subtasks' # subtasks
        \/ last'.act \in ProtectedActs
        \/ \E w \in Workers : pc'[w] \notin {"idle", pc[w]})
       => \E w \in Workers :
             /\ pc'[w] # pc[w]
             /\ ValidToken(req'[w].token, sid[w]) \/ ValidToken(req[w].token, sid[w])
             /\ last'.act \in ProtectedActs => last'.w = w /\ ValidToken(last'.token, sid[w])
             /\ last'.act \in {"login", "create_log"} => last'.token = Absent]_vars

\* after a restart the logs, written with no token, have been listed for a
\* token of the new session
C6_Witness ==
    /\ last.act = "get_logs" /\ last.status = 200
    /\ DOMAIN logs # {}
    /\ sid[1] = <<1, 1>>
    /\ last.token.sid = <<1, 1>>

\* C7: login issues a token exactly for the one credential pair; every
\* other pair gets the same InvalidCredentials answer and no token; the
\* token issued names the username and the worker's current session.
C7_LoginExactlyFixedPair ==
    [][last'.act = "login" =>
          LET a == last'.arg
          IN /\ last'.status = 200 <=> (a.username = "admin" /\ a.password = "12345")
             /\ last'.status # 200 =>
                   /\ last'.status = 400
                   /\ last'.detail = "Invalid credentials"
                   /\ last'.out = Absent
                   /\ issued' = issued
             /\ last'.status = 200 =>
                   /\ last'.out = [sub |-> a.username, sid |-> sid[last'.w], key |-> SECRET_KEY]
                   /\ issued' = issued \cup {last'.out}]_vars

\* a login has succeeded after a restart and both sessions' tokens exist
C7_Witness ==
    /\ last.act = "login" /\ last.status = 200
    /\ last.out.sid = <<1, 1>>
    /\ Cardinality(issued) = 2

\* C8: a stored LogEntry stays, with the same id, message, stack, url and
\* timestamp, whatever happens next; a log create whose client id is the id
\* of a stored entry answers the server error and changes nothing; a log
\* create that succeeds adds exactly one entry.
C8_LogsAppendOnly ==
    [][/\ \A id \in DOMAIN logs : id \in DOMAIN logs' /\ logs'[id] = logs[id]
       /\ last'.act = "create_log" =>
             /\ ("id" \in DOMAIN last'.arg /\ last'.arg.id \in DOMAIN logs) =>
                   last'.status = 500 /\ logs' = logs
             /\ last'.status = 200 =>
                   /\ DOMAIN logs' = DOMAIN logs \cup {last'.out}
                   /\ last'.out \notin DOMAIN logs
             /\ last'.status # 200 => logs' = logs
       /\ last'.act # "create_log" => logs' = logs]_vars

\* a log create with the client id of a stored entry has been refused
C8_Witness ==
    /\ last.act = "create_log" /\ last.status = 500
    /\ "id" \in DOMAIN last.arg
    /\ last.arg.id \in DOMAIN logs
    /\ logs[last.arg.id].message = "boom"

\* C9, as stated: every stored SubTask's todo_id is the id of a stored
\* Todo, whatever the interleaving of the requests.
C9_NoOrphanSubTask ==
    \A s \in DOMAIN subtasks : subtasks[s].todo_id \in DOMAIN todos

\* C10, as stated: when two updates of the same Todo have both committed,
\* the Todo's subtasks are those of one of the two inputs, not a union or a
\* mix, and none from before.
C10_OneUpdateWins ==
    (/\ pc[1] = "update_committed" /\ pc[2] = "update_committed"
     /\ req[1].id = req[2].id
     /\ req[1].id \in DOMAIN todos)
       => Contents(SubTaskReads(subtasks, req[1].id)) \in
             {Attr(req[1].input, "subTasks"), Attr(req[2].input, "subTasks")}

====
